---------------------------- MODULE Spec2Model ----------------------------
(***************************************************************************)
(* A model of internal/smtpClient/imap.go: the IMAPClient type, which      *)
(* guards one IMAP session with a mutex and offers Connect, Disconnect,    *)
(* GetFolders, GetInbox, GetFolderMessages and GetEmailByID.               *)
(*                                                                         *)
(* Every caller is a process.  An operation is a sequence of steps taken   *)
(* while the caller holds c.mu; the goroutine an operation starts for the  *)
(* transport's List or Fetch call is a second thread of the same caller    *)
(* (the Prod... actions), talking to it over two bounded channels.         *)
(* The transport (the go-imap client and the server behind it) is the      *)
(* environment: every call on it may succeed or fail.                      *)
(*                                                                         *)
(* Machine integers are scaled down: a uint32 has UintBits bits and an int *)
(* has twice as many, as on a 64-bit build.                                *)
(***************************************************************************)
EXTENDS Integers, Sequences, FiniteSets, TLC

\* ------------------------------------------------------------------ bounds

NumCallers == 2
MaxConns == 2
UintBits == 2
MaxPage == 3
MaxPageSize == 5
MaxRecords == 2
MaxParts == 2

\* --------------------------------------------------------- program constants

StartTLSPort == 1143
FoldersChanCap == 50
MessagesChanCap == 10
EmailChanCap == 1
DoneChanCap == 1

\* ------------------------------------------------------------ machine integers

RECURSIVE Pow2(_)
Pow2(n) == IF n = 0 THEN 1 ELSE 2 * Pow2(n - 1)

Uint32Mod == Pow2(UintBits)
MaxUint32 == Uint32Mod - 1
IntBits == 2 * UintBits
IntMod == Pow2(IntBits)
MaxInt == (IntMod \div 2) - 1

\* The value an int holds after an arithmetic result x: two's complement wrap.
IntWrap(x) ==
    LET m == x % IntMod
    IN  IF m > MaxInt THEN m - IntMod ELSE m

\* uint32(x) for an int x: the low bits.
ToUint32(x) == x % Uint32Mod

\* uint32 arithmetic.
U32Sub(a, b) == (a - b) % Uint32Mod
U32Add(a, b) == (a + b) % Uint32Mod

\* ------------------------------------------------------------------ strings

Digits == <<"0", "1", "2", "3", "4", "5", "6", "7", "8", "9">>

DigitVal(ch) == (CHOOSE i \in 1..10 : Digits[i] = ch) - 1

IsDigit(ch) == \E i \in 1..10 : Digits[i] = ch

\* fmt.Sprintf("%d", n) for an unsigned n, as a sequence of characters.
RECURSIVE FormatUint(_)
FormatUint(n) ==
    IF n < 10 THEN <<Digits[n + 1]>>
    ELSE Append(FormatUint(n \div 10), Digits[(n % 10) + 1])

\* strconv.ParseUint(s, 10, 32): the value, or -1 for an error (empty string,
\* a character that is no digit, or a value that does not fit the width).
RECURSIVE ParseDigits(_, _)
ParseDigits(s, acc) ==
    IF s = <<>> THEN acc
    ELSE IF ~IsDigit(Head(s)) THEN -1
    ELSE LET n == acc * 10 + DigitVal(Head(s))
         IN  IF n > MaxUint32 THEN -1 ELSE ParseDigits(Tail(s), n)

ParseUint(s) == IF s = <<>> THEN -1 ELSE ParseDigits(s, 0)

\* --------------------------------------------------------------- pagination

\* offset := (page - 1) * pageSize, in int arithmetic.
Offset(page, pageSize) == IntWrap(IntWrap(page - 1) * pageSize)

\* if uint32(offset) >= totalCount { return empty }
PageIsEmpty(total, page, pageSize) ==
    total = 0 \/ ToUint32(Offset(page, pageSize)) >= total

\* from := totalCount - uint32(offset)
PageFrom(total, page, pageSize) == U32Sub(total, ToUint32(Offset(page, pageSize)))

\* if from > uint32(pageSize) { to = from - uint32(pageSize) + 1 } else { to = 1 }
PageTo(total, page, pageSize) ==
    LET from == PageFrom(total, page, pageSize)
    IN  IF from > ToUint32(pageSize)
        THEN U32Add(U32Sub(from, ToUint32(pageSize)), 1)
        ELSE 1

\* The members of the set seqSet.AddRange(to, from) denotes in a mailbox of
\* total messages: the bounds in either order, 0 standing for "*", the last
\* message.
SeqSetMembers(to, from, total) ==
    LET a == IF to = 0 THEN total ELSE to
        b == IF from = 0 THEN total ELSE from
        lo == IF a < b THEN a ELSE b
        hi == IF a < b THEN b ELSE a
    IN  {n \in 1..total : lo <= n /\ n <= hi}

\* --------------------------------------------------------------------- state

Procs == 1..NumCallers
Ports == {StartTLSPort, 993}
Pages == {n \in 1..MaxPage : n <= MaxInt}
PageSizes == {n \in 1..MaxPageSize : n <= MaxInt}
FolderArgs == {"INBOX", "Archive"}
EmailFolderArgs == {"", "Archive"}
IDArgs == {<<"2">>, <<"0", "2">>, <<"x">>, <<"9", "9">>, <<>>}
MailboxNames == {"INBOX", "Archive"}
PartTexts == {"t1", "t2"}
PartFiles == {"f1", "f2"}

Nil == "nil"
Session == "session"
NoProc == 0
NoArgs == [page |-> 0, pageSize |-> 0, folder |-> "", id |-> <<>>]
NoRet == [kind |-> "none", msgs |-> <<>>, total |-> 0]
NoWalk == [lits |-> 0, open |-> FALSE, err |-> FALSE, parts |-> 0, seen |-> <<>>]

VARIABLES
    config,      \* c.config: the port decides between StartTLS and DialTLS
    client,      \* c.client: Session when the guard holds a session, else Nil
    mu,          \* c.mu: the caller holding the lock, NoProc when free
    open,        \* how many connections are opened and not logged out
    pc,          \* each caller's position
    op,          \* the operation each caller is in
    args,        \* its arguments
    totalCount,  \* mbox.Messages of the operation's Select
    seqSet,      \* <<to, from>> once the operation has built its seqSet
    seqNum,      \* GetEmailByID: the parsed id
    messages,    \* the record channel: how many records it buffers
    closed,      \* whether the transport has closed the record channel
    done,        \* the done channel
    prod,        \* the operation's goroutine: where it is
    sent,        \* how many records the transport call has delivered
    result,      \* the list the consumer loop appends to
    message,     \* GetEmailByID: the message built so far (<<>> for nil)
    walk,        \* GetEmailByID: the MIME walk over the current record
    ret,         \* what the operation returns
    calls        \* the transport calls the operation has issued, in order

guardVars == <<config, client, open>>
chanVars == <<messages, closed, done, prod, sent>>
localVars == <<totalCount, seqSet, seqNum, result, message, walk>>
vars == <<config, client, mu, open, pc, op, args, totalCount, seqSet,
          seqNum, messages, closed, done, prod, sent, result, message, walk,
          ret, calls>>

Init ==
    /\ config \in [port : Ports]
    /\ client = Nil
    /\ mu = NoProc
    /\ open = 0
    /\ pc = [p \in Procs |-> "idle"]
    /\ op = [p \in Procs |-> "none"]
    /\ args = [p \in Procs |-> NoArgs]
    /\ totalCount = [p \in Procs |-> 0]
    /\ seqSet = [p \in Procs |-> <<>>]
    /\ seqNum = [p \in Procs |-> 0]
    /\ messages = [p \in Procs |-> 0]
    /\ closed = [p \in Procs |-> FALSE]
    /\ done = [p \in Procs |-> <<>>]
    /\ prod = [p \in Procs |-> "none"]
    /\ sent = [p \in Procs |-> 0]
    /\ result = [p \in Procs |-> <<>>]
    /\ message = [p \in Procs |-> <<>>]
    /\ walk = [p \in Procs |-> NoWalk]
    /\ ret = [p \in Procs |-> NoRet]
    /\ calls = [p \in Procs |-> <<>>]

\* A transport call, as the log keeps it.
Call(kind, on, mbox, to, from) ==
    [kind |-> kind, on |-> on, mbox |-> mbox, to |-> to, from |-> from]

Issue(p, log) == calls' = [calls EXCEPT ![p] = @ \o log]

Returns(p, r) ==
    /\ ret' = [ret EXCEPT ![p] = r]
    /\ pc' = [pc EXCEPT ![p] = "ret"]

Err(kind) == [kind |-> kind, msgs |-> <<>>, total |-> 0]

\* ---------------------------------------------------------------- the lock

\* Lock, were it to take the mutex from its holder.
LockWithoutWaiting(p) == mu' = p

\* c.mu.Lock(): blocks while another caller holds the lock.
Lock(p) == mu = NoProc /\ mu' = p

\* defer c.mu.Unlock()
Unlock(p) == mu' = NoProc

\* A call of an operation: the caller takes the lock as its first step.
Enter(p, name, a) ==
    /\ pc[p] = "idle"
    /\ Lock(p)
    /\ pc' = [pc EXCEPT ![p] = "body"]
    /\ op' = [op EXCEPT ![p] = name]
    /\ args' = [args EXCEPT ![p] = a]
    /\ UNCHANGED <<guardVars, chanVars, localVars, ret, calls>>

CallConnect(p) == Enter(p, "Connect", NoArgs)

CallDisconnect(p) == Enter(p, "Disconnect", NoArgs)

CallGetFolders(p) == Enter(p, "GetFolders", NoArgs)

CallGetInbox(p) ==
    \E page \in Pages, pageSize \in PageSizes :
        Enter(p, "GetInbox", [NoArgs EXCEPT !.page = page, !.pageSize = pageSize])

CallGetFolderMessages(p) ==
    \E folder \in FolderArgs, page \in Pages, pageSize \in PageSizes :
        Enter(p, "GetFolderMessages",
              [NoArgs EXCEPT !.folder = folder, !.page = page, !.pageSize = pageSize])

CallGetEmailByID(p) ==
    \E id \in IDArgs, folder \in EmailFolderArgs :
        Enter(p, "GetEmailByID", [NoArgs EXCEPT !.id = id, !.folder = folder])

\* The operation returns: the deferred Unlock runs and the frame is gone.  A
\* goroutine that has not exited goes on.
Return(p) ==
    /\ pc[p] = "ret"
    /\ Unlock(p)
    /\ pc' = [pc EXCEPT ![p] = "idle"]
    /\ op' = [op EXCEPT ![p] = "none"]
    /\ args' = [args EXCEPT ![p] = NoArgs]
    /\ totalCount' = [totalCount EXCEPT ![p] = 0]
    /\ seqSet' = [seqSet EXCEPT ![p] = <<>>]
    /\ seqNum' = [seqNum EXCEPT ![p] = 0]
    /\ messages' = [messages EXCEPT ![p] = 0]
    /\ closed' = [closed EXCEPT ![p] = FALSE]
    /\ done' = [done EXCEPT ![p] = <<>>]
    /\ prod' = [prod EXCEPT ![p] = IF @ = "exit" THEN "none" ELSE @]
    /\ sent' = [sent EXCEPT ![p] = 0]
    /\ result' = [result EXCEPT ![p] = <<>>]
    /\ message' = [message EXCEPT ![p] = <<>>]
    /\ walk' = [walk EXCEPT ![p] = NoWalk]
    /\ ret' = [ret EXCEPT ![p] = NoRet]
    /\ calls' = [calls EXCEPT ![p] = <<>>]
    /\ UNCHANGED guardVars

\* ------------------------------------------------------- Connect, Disconnect

\* The variable a transport call is made through.
Raw == "imapClient"
Held == "c.client"

\* client.Dial / client.DialTLS can succeed: the server takes one more
\* connection.
CanOpen == open < MaxConns

\* imapClient.Logout() after a failed login; its own result is dropped, and the
\* connection is logged out or, when the logout fails, stays as it is.
TearDown(p, log) ==
    /\ Issue(p, log \o <<Call("logout", Raw, "", 0, 0)>>)
    /\ \/ open' = open
       \/ open' = open + 1

\* Login, were c.client assigned before the login is tried.
LoginAdoptedFirst(p, log) ==
    \/ /\ TearDown(p, log \o <<Call("login", Raw, "", 0, 0)>>)
       /\ client' = Session
       /\ Returns(p, Err("LoginFailed"))
    \/ /\ Issue(p, log \o <<Call("login", Raw, "", 0, 0)>>)
       /\ open' = open + 1
       /\ client' = Session
       /\ Returns(p, [NoRet EXCEPT !.kind = "ok"])

\* if err := imapClient.Login(...); err != nil { imapClient.Logout(); return err }
\* c.client = imapClient
Login(p, log) ==
    \/ /\ TearDown(p, log \o <<Call("login", Raw, "", 0, 0)>>)
       /\ client' = client
       /\ Returns(p, Err("LoginFailed"))
    \/ /\ Issue(p, log \o <<Call("login", Raw, "", 0, 0)>>)
       /\ open' = open + 1
       /\ client' = Session
       /\ Returns(p, [NoRet EXCEPT !.kind = "ok"])

ConnectBody(p) ==
    /\ pc[p] = "body"
    /\ op[p] = "Connect"
    /\ \/ \* Dial or DialTLS fails: no connection
          /\ Issue(p, <<Call("dial", Raw, "", 0, 0)>>)
          /\ Returns(p, Err("DialFailed"))
          /\ UNCHANGED <<client, open>>
       \/ \* port 1143: Dial succeeds and StartTLS fails; the connection stays
          /\ config.port = StartTLSPort
          /\ CanOpen
          /\ open' = open + 1
          /\ Issue(p, <<Call("dial", Raw, "", 0, 0), Call("starttls", Raw, "", 0, 0)>>)
          /\ Returns(p, Err("StartTLSFailed"))
          /\ UNCHANGED client
       \/ \* port 1143: Dial and StartTLS succeed
          /\ config.port = StartTLSPort
          /\ CanOpen
          /\ Login(p, <<Call("dial", Raw, "", 0, 0), Call("starttls", Raw, "", 0, 0)>>)
       \/ \* any other port: DialTLS succeeds
          /\ config.port # StartTLSPort
          /\ CanOpen
          /\ Login(p, <<Call("dial", Raw, "", 0, 0)>>)
    /\ UNCHANGED <<config, mu, op, args, chanVars, localVars>>

\* Disconnect, were the nil check missing: the logout of no session fails.
DisconnectWithoutNilCheck(p) ==
    /\ pc[p] = "body"
    /\ op[p] = "Disconnect"
    /\ \/ /\ Issue(p, <<Call("logout", Held, "", 0, 0)>>)
          /\ Returns(p, Err("LogoutFailed"))
          /\ UNCHANGED <<client, open>>
       \/ /\ client # Nil
          /\ Issue(p, <<Call("logout", Held, "", 0, 0)>>)
          /\ open' = open - 1
          /\ client' = Nil
          /\ Returns(p, [NoRet EXCEPT !.kind = "ok"])
    /\ UNCHANGED <<config, mu, op, args, chanVars, localVars>>

DisconnectBody(p) ==
    /\ pc[p] = "body"
    /\ op[p] = "Disconnect"
    /\ \/ \* if c.client == nil { return nil }
          /\ client = Nil
          /\ Returns(p, [NoRet EXCEPT !.kind = "ok"])
          /\ UNCHANGED <<client, open, calls>>
       \/ \* c.client.Logout() fails: the error is returned
          /\ client # Nil
          /\ Issue(p, <<Call("logout", Held, "", 0, 0)>>)
          /\ Returns(p, Err("LogoutFailed"))
          /\ UNCHANGED <<client, open>>
       \/ \* c.client.Logout() succeeds: c.client = nil
          /\ client # Nil
          /\ Issue(p, <<Call("logout", Held, "", 0, 0)>>)
          /\ open' = open - 1
          /\ client' = Nil
          /\ Returns(p, [NoRet EXCEPT !.kind = "ok"])
    /\ UNCHANGED <<config, mu, op, args, chanVars, localVars>>

\* ------------------------------------------------------------ read operations

ReadOps == {"GetFolders", "GetInbox", "GetFolderMessages", "GetEmailByID"}
PageOps == {"GetInbox", "GetFolderMessages"}

\* Where an operation goes once it has found a session.
AfterCheck(name) ==
    CASE name = "GetFolders" -> "go"
      [] name = "GetEmailByID" -> "parse"
      [] OTHER -> "select"

\* The operation, were the check of c.client missing.
CheckClientSkipped(p) ==
    /\ pc[p] = "body"
    /\ op[p] \in ReadOps
    /\ pc' = [pc EXCEPT ![p] = AfterCheck(op[p])]
    /\ UNCHANGED <<guardVars, mu, op, args, chanVars, localVars, ret, calls>>

\* if c.client == nil { return nil, fmt.Errorf("not connected to IMAP server") }
CheckClient(p) ==
    /\ pc[p] = "body"
    /\ op[p] \in ReadOps
    /\ IF client = Nil
       THEN Returns(p, Err("NotConnected"))
       ELSE pc' = [pc EXCEPT ![p] = AfterCheck(op[p])] /\ ret' = ret
    /\ UNCHANGED <<guardVars, mu, op, args, chanVars, localVars, calls>>

\* ParseID, were the error of ParseUint dropped and the number taken as 0.
ParseIDIgnoringError(p) ==
    /\ pc[p] = "parse"
    /\ LET n == ParseUint(args[p].id)
       IN  seqNum' = [seqNum EXCEPT ![p] = IF n < 0 THEN 0 ELSE n]
    /\ pc' = [pc EXCEPT ![p] = "select"]
    /\ UNCHANGED <<guardVars, mu, op, args, chanVars, totalCount, seqSet, result,
                   message, walk, ret, calls>>

\* seqNum, err := strconv.ParseUint(id, 10, 32)
ParseID(p) ==
    /\ pc[p] = "parse"
    /\ LET n == ParseUint(args[p].id)
       IN  IF n < 0
           THEN Returns(p, Err("InvalidID")) /\ seqNum' = seqNum
           ELSE /\ seqNum' = [seqNum EXCEPT ![p] = n]
                /\ pc' = [pc EXCEPT ![p] = "select"]
                /\ ret' = ret
    /\ UNCHANGED <<guardVars, mu, op, args, chanVars, totalCount, seqSet, result,
                   message, walk, calls>>

\* Mailbox, were the folder argument used by every operation.
MailboxFromArgs(p) == args[p].folder

\* The mailbox an operation selects.
Mailbox(p) ==
    CASE op[p] = "GetInbox" -> "INBOX"
      [] op[p] = "GetEmailByID" ->
            IF args[p].folder = "" THEN "INBOX" ELSE args[p].folder
      [] OTHER -> args[p].folder

EmptyPage(total) == [kind |-> "ok", msgs |-> <<>>, total |-> total]

\* What follows a successful Select in GetInbox and GetFolderMessages: the two
\* empty results, or the seqSet of the page.
Paginate(p, total) ==
    LET page == args[p].page
        pageSize == args[p].pageSize
    IN  IF total = 0
        THEN Returns(p, EmptyPage(0)) /\ seqSet' = seqSet
        ELSE IF PageIsEmpty(total, page, pageSize)
        THEN Returns(p, EmptyPage(total)) /\ seqSet' = seqSet
        ELSE /\ seqSet' = [seqSet EXCEPT ![p] =
                    <<PageTo(total, page, pageSize), PageFrom(total, page, pageSize)>>]
             /\ pc' = [pc EXCEPT ![p] = "go"]
             /\ ret' = ret

\* c.client.Select(folder, false) and, up to the start of the goroutine, what
\* the operation computes from its answer.  GetEmailByID drops the answer and
\* builds the seqSet of its one number.
Select(p) ==
    /\ pc[p] = "select"
    /\ Issue(p, <<Call("select", Held, Mailbox(p), 0, 0)>>)
    /\ \/ /\ Returns(p, Err("SelectFailed"))
          /\ UNCHANGED <<totalCount, seqSet>>
       \/ /\ op[p] = "GetEmailByID"
          /\ seqSet' = [seqSet EXCEPT ![p] = <<seqNum[p], seqNum[p]>>]
          /\ pc' = [pc EXCEPT ![p] = "go"]
          /\ UNCHANGED <<totalCount, ret>>
       \/ /\ op[p] \in PageOps
          /\ \E total \in 0..MaxUint32 :
                /\ totalCount' = [totalCount EXCEPT ![p] = total]
                /\ Paginate(p, total)
    /\ UNCHANGED <<guardVars, mu, op, args, chanVars, seqNum, result, message, walk>>

\* messages := make(chan ..., n); done := make(chan error, 1); go func() {...}()
\* From here on the operation reads none of its arguments (but for the id in
\* the text of GetEmailByID's not-found error), and they are dropped.
Go(p) ==
    /\ pc[p] = "go"
    /\ prod' = [prod EXCEPT ![p] = "spawned"]
    /\ pc' = [pc EXCEPT ![p] = "range"]
    /\ args' = [args EXCEPT ![p] = NoArgs]
    /\ UNCHANGED <<guardVars, mu, op, messages, closed, done, sent,
                   localVars, ret, calls>>

\* -------------------------------------------------- the goroutine (producer)

ChanCap(name) ==
    CASE name = "GetFolders" -> FoldersChanCap
      [] name = "GetEmailByID" -> EmailChanCap
      [] OTHER -> MessagesChanCap

\* How many literals msg.Body may hold.
LiteralCounts == {0, 1, 2}

\* What the transport may put on the record channel: mailbox names, or records
\* of the requested numbers (for GetEmailByID the number 0 asks for the last
\* message, whichever it is).
Records(p) ==
    CASE op[p] = "GetFolders" -> MailboxNames
      [] op[p] = "GetEmailByID" ->
            [SeqNum : IF seqNum[p] = 0 THEN 1..MaxUint32 ELSE {seqNum[p]}]
      [] OTHER ->
            [SeqNum : SeqSetMembers(seqSet[p][1], seqSet[p][2], totalCount[p])]

\* How many records one transport call may send: every mailbox and every
\* message of the range once, in any order; GetEmailByID's one message may
\* come more than once.
MaxSent(p) ==
    IF op[p] = "GetEmailByID"
    THEN IF Records(p) = {} THEN 0 ELSE MaxRecords
    ELSE IF Cardinality(Records(p)) < MaxRecords
         THEN Cardinality(Records(p))
         ELSE MaxRecords

\* The goroutine starts: it enters c.client.List or c.client.Fetch.
ProdCall(p) ==
    /\ prod[p] = "spawned"
    /\ prod' = [prod EXCEPT ![p] = "incall"]
    /\ IF op[p] = "GetFolders"
       THEN Issue(p, <<Call("list", Held, "", 0, 0)>>)
       ELSE Issue(p, <<Call("fetch", Held, "", seqSet[p][1], seqSet[p][2])>>)
    /\ UNCHANGED <<guardVars, mu, pc, op, args, messages, closed, done, sent,
                   localVars, ret>>

\* The transport call sends one record; it blocks while the channel is full.
\* What the record holds shows when the consumer reads it, and the model
\* settles it there, in Recv.
ProdDeliver(p) ==
    /\ prod[p] = "incall"
    /\ sent[p] < MaxSent(p)
    /\ messages[p] < ChanCap(op[p])
    /\ messages' = [messages EXCEPT ![p] = @ + 1]
    /\ sent' = [sent EXCEPT ![p] = @ + 1]
    /\ UNCHANGED <<guardVars, mu, pc, op, args, closed, done, prod, localVars,
                   ret, calls>>

\* The transport call closes the channel and returns.
ProdClose(p) ==
    /\ prod[p] = "incall"
    /\ closed' = [closed EXCEPT ![p] = TRUE]
    /\ prod' = [prod EXCEPT ![p] = "returned"]
    /\ UNCHANGED <<guardVars, mu, pc, op, args, messages, done, sent, localVars,
                   ret, calls>>

\* done <- err: the call's result, an error (TRUE) or nil (FALSE).
ProdSendDone(p) ==
    /\ prod[p] = "returned"
    /\ Len(done[p]) < DoneChanCap
    /\ \E err \in BOOLEAN : done' = [done EXCEPT ![p] = Append(@, err)]
    /\ prod' = [prod EXCEPT ![p] = "exit"]
    /\ UNCHANGED <<guardVars, mu, pc, op, args, messages, closed, sent,
                   localVars, ret, calls>>

\* ------------------------------------------------- the range loop (consumer)

\* Message{ID: fmt.Sprintf("%d", msg.SeqNum), ...}
NewMessage(r) == [ID |-> FormatUint(r.SeqNum), Body |-> "", Attachments |-> <<>>]

\* The records the consumer may read next: of a list, those not read yet.
Unread(p) ==
    CASE op[p] = "GetFolders" ->
            {r \in Records(p) : \A i \in 1..Len(result[p]) : result[p][i] # r}
      [] op[p] = "GetEmailByID" -> Records(p)
      [] OTHER ->
            {r \in Records(p) :
                \A i \in 1..Len(result[p]) : result[p][i].ID # FormatUint(r.SeqNum)}

\* for msg := range messages { ... }: one record is received and handled.  In
\* GetEmailByID the MIME walk over the record's literals follows.
Recv(p) ==
    /\ pc[p] = "range"
    /\ messages[p] > 0
    /\ messages' = [messages EXCEPT ![p] = @ - 1]
    /\ \E r \in Unread(p) :
          CASE op[p] = "GetFolders" ->
                  /\ result' = [result EXCEPT ![p] = Append(@, r)]
                  /\ UNCHANGED <<message, walk, pc>>
            [] op[p] = "GetEmailByID" ->
                  /\ message' = [message EXCEPT ![p] = <<NewMessage(r)>>]
                  /\ \E n \in LiteralCounts :
                        walk' = [walk EXCEPT ![p] = [NoWalk EXCEPT !.lits = n]]
                  /\ pc' = [pc EXCEPT ![p] = "walk"]
                  /\ UNCHANGED result
            [] OTHER ->
                  /\ result' = [result EXCEPT ![p] = Append(@, [ID |-> FormatUint(r.SeqNum)])]
                  /\ UNCHANGED <<message, walk, pc>>
    /\ UNCHANGED <<guardVars, mu, op, args, closed, done, prod, sent, totalCount,
                   seqSet, seqNum, ret, calls>>

\* for _, literal := range msg.Body { mr, err := mail.CreateReader(literal) ... }
WalkLiteral(p) ==
    /\ pc[p] = "walk"
    /\ ~walk[p].open
    /\ IF walk[p].lits = 0
       THEN \* the record is done: back to the range loop
            /\ pc' = [pc EXCEPT ![p] = "range"]
            /\ walk' = walk
       ELSE /\ pc' = pc
            /\ \/ \* CreateReader fails: continue with the next literal
                  walk' = [walk EXCEPT ![p].lits = @ - 1]
               \/ walk' = [walk EXCEPT ![p].lits = @ - 1, ![p].open = TRUE]
    /\ UNCHANGED <<guardVars, mu, op, args, chanVars, totalCount, seqSet, seqNum,
                   result, message, ret, calls>>

\* A part as the iterator hands it out: its header kind and what reading it
\* gives.
Inline(t) == [kind |-> "inline", content |-> t]
Attachment(f) == [kind |-> "attachment", content |-> f]

\* SetBody, were the first inline part kept.
SetBodyIfEmpty(m, t) == IF m.Body = "" THEN [m EXCEPT !.Body = t] ELSE m

\* case *mail.InlineHeader: message.Body = string(b)
SetBody(m, t) == [m EXCEPT !.Body = t]

\* AddAttachment, were the new attachment put in front.
AddAttachmentInFront(m, f) == [m EXCEPT !.Attachments = <<f>> \o @]

\* case *mail.AttachmentHeader: message.Attachments = append(message.Attachments, ...)
AddAttachment(m, f) == [m EXCEPT !.Attachments = Append(@, f)]

\* for { p, err := mr.NextPart() ... }: one call of NextPart and what the loop
\* does with its answer.  walk.seen keeps the parts handed out for the record.
WalkPart(p) ==
    /\ pc[p] = "walk"
    /\ walk[p].open
    /\ ~walk[p].err
    /\ \/ \* io.EOF: break
          /\ walk' = [walk EXCEPT ![p].open = FALSE]
          /\ message' = message
       \/ \* any other error: the loop is at its continue
          /\ walk' = [walk EXCEPT ![p].err = TRUE]
          /\ message' = message
       \/ \* an inline part
          /\ walk[p].parts < MaxParts
          /\ \E t \in PartTexts :
                /\ walk' = [walk EXCEPT ![p].parts = @ + 1,
                                        ![p].seen = Append(@, Inline(t))]
                /\ message' = [message EXCEPT ![p][1] = SetBody(@, t)]
       \/ \* an attachment part
          /\ walk[p].parts < MaxParts
          /\ \E f \in PartFiles :
                /\ walk' = [walk EXCEPT ![p].parts = @ + 1,
                                        ![p].seen = Append(@, Attachment(f))]
                /\ message' = [message EXCEPT ![p][1] = AddAttachment(@, f)]
    /\ UNCHANGED <<guardVars, mu, pc, op, args, chanVars, totalCount, seqSet,
                   seqNum, result, ret, calls>>

\* if err != nil { continue }: back to the top of the loop, where NextPart is
\* called again on the same reader.
WalkContinue(p) ==
    /\ pc[p] = "walk"
    /\ walk[p].err
    /\ walk' = [walk EXCEPT ![p].err = FALSE]
    /\ UNCHANGED <<guardVars, mu, pc, op, args, chanVars, totalCount, seqSet,
                   seqNum, result, message, ret, calls>>

\* The range loop ends: the channel is closed and drained.
RangeEnd(p) ==
    /\ pc[p] = "range"
    /\ messages[p] = 0
    /\ closed[p]
    /\ pc' = [pc EXCEPT ![p] = "waitdone"]
    /\ UNCHANGED <<guardVars, mu, op, args, chanVars, localVars, ret, calls>>

\* Success, were the test of message == nil missing.
SuccessWithoutNilCheck(p) ==
    CASE op[p] = "GetFolders" -> [kind |-> "ok", msgs |-> result[p], total |-> 0]
      [] op[p] = "GetEmailByID" -> [kind |-> "ok", msgs |-> message[p], total |-> 0]
      [] OTHER -> [kind |-> "ok", msgs |-> result[p], total |-> totalCount[p]]

\* What the operation returns once the transport call has returned without error.
Success(p) ==
    CASE op[p] = "GetFolders" -> [kind |-> "ok", msgs |-> result[p], total |-> 0]
      [] op[p] = "GetEmailByID" ->
            IF message[p] = <<>>
            THEN Err("NotFound")
            ELSE [kind |-> "ok", msgs |-> message[p], total |-> 0]
      [] OTHER -> [kind |-> "ok", msgs |-> result[p], total |-> totalCount[p]]

\* Failure, were the messages read so far returned beside the error.
FailureWithPartialResult(p) ==
    IF op[p] = "GetFolders"
    THEN Err("ListFailed")
    ELSE [kind |-> "FetchFailed",
          msgs |-> IF op[p] = "GetEmailByID" THEN message[p] ELSE result[p],
          total |-> totalCount[p]]

\* What it returns when the transport call returned an error.
Failure(p) == IF op[p] = "GetFolders" THEN Err("ListFailed") ELSE Err("FetchFailed")

\* if err := <-done; err != nil { return nil, err }; return result, nil
RecvDone(p) ==
    /\ pc[p] = "waitdone"
    /\ done[p] # <<>>
    /\ done' = [done EXCEPT ![p] = Tail(@)]
    /\ Returns(p, IF Head(done[p]) THEN Failure(p) ELSE Success(p))
    /\ UNCHANGED <<guardVars, mu, op, args, messages, closed, prod, sent,
                   localVars, calls>>

\* --------------------------------------------------------- the specification

Next ==
    \E p \in Procs :
        \/ CallConnect(p)
        \/ CallDisconnect(p)
        \/ CallGetFolders(p)
        \/ CallGetInbox(p)
        \/ CallGetFolderMessages(p)
        \/ CallGetEmailByID(p)
        \/ ConnectBody(p)
        \/ DisconnectBody(p)
        \/ CheckClient(p)
        \/ ParseID(p)
        \/ Select(p)
        \/ Go(p)
        \/ ProdCall(p)
        \/ ProdDeliver(p)
        \/ ProdClose(p)
        \/ ProdSendDone(p)
        \/ Recv(p)
        \/ WalkLiteral(p)
        \/ WalkPart(p)
        \/ WalkContinue(p)
        \/ RangeEnd(p)
        \/ RecvDone(p)
        \/ Return(p)

Spec == Init /\ [][Next]_vars

\* What runs once started, runs: a caller inside an operation and the
\* goroutine it started are scheduled again and again, and the transport call,
\* once entered, closes the channel and returns.  Nothing obliges a caller to
\* call, nor the transport to send one more record.
Fairness ==
    \A p \in Procs :
        /\ WF_vars(ConnectBody(p))
        /\ WF_vars(DisconnectBody(p))
        /\ WF_vars(CheckClient(p))
        /\ WF_vars(ParseID(p))
        /\ WF_vars(Select(p))
        /\ WF_vars(Go(p))
        /\ WF_vars(ProdCall(p))
        /\ WF_vars(ProdClose(p))
        /\ WF_vars(ProdSendDone(p))
        /\ WF_vars(Recv(p))
        /\ WF_vars(WalkLiteral(p))
        /\ WF_vars(WalkPart(p))
        /\ WF_vars(WalkContinue(p))
        /\ WF_vars(RangeEnd(p))
        /\ WF_vars(RecvDone(p))
        /\ WF_vars(Return(p))

FairSpec == Spec /\ Fairness

\* --------------------------------------------------------------- pagination

\* The page operation of caller p has selected its mailbox and read its size,
\* and has not started its goroutine yet.
Selected(p) ==
    /\ op[p] \in PageOps
    /\ pc[p] \in {"go", "ret"}
    /\ args[p].page >= 1
    /\ calls[p] # <<>>
    /\ ret[p].kind # "SelectFailed"

\* The offset and the bounds of a page as the design states them, over the
\* integers.
SpecOffset(p) == (args[p].page - 1) * args[p].pageSize
SpecFrom(p) == totalCount[p] - SpecOffset(p)
SpecTo(p) ==
    IF SpecFrom(p) > args[p].pageSize THEN SpecFrom(p) - args[p].pageSize + 1 ELSE 1

\* C1: whenever totalCount >= 1 and (page-1)*pageSize < totalCount, the range
\* GetInbox and GetFolderMessages are about to request is [to, from] with
\* from = totalCount - (page-1)*pageSize and to = from - pageSize + 1 when
\* from > pageSize, else 1.
C1_RangeAsSpecified ==
    \A p \in Procs :
        (Selected(p) /\ totalCount[p] >= 1 /\ SpecOffset(p) < totalCount[p])
            => /\ pc[p] = "go"
               /\ seqSet[p] = <<SpecTo(p), SpecFrom(p)>>

\* C2: a range that GetInbox or GetFolderMessages requests satisfies
\* 1 <= to <= from <= totalCount and from - to + 1 <= pageSize.
C2_RangeWithinMailbox ==
    \A p \in Procs :
        (Selected(p) /\ pc[p] = "go")
            => /\ 1 <= seqSet[p][1]
               /\ seqSet[p][1] <= seqSet[p][2]
               /\ seqSet[p][2] <= totalCount[p]
               /\ seqSet[p][2] - seqSet[p][1] + 1 <= args[p].pageSize

\* C3: whenever (page-1)*pageSize >= totalCount, GetInbox and
\* GetFolderMessages return success with no messages and TotalCount =
\* totalCount, and request nothing.
C3_PageBeyondDataIsEmpty ==
    \A p \in Procs :
        (Selected(p) /\ SpecOffset(p) >= totalCount[p])
            => /\ pc[p] = "ret"
               /\ ret[p] = [kind |-> "ok", msgs |-> <<>>, total |-> totalCount[p]]

\* ---------------------------------------------------------- the session guard

InOperation(p) == pc[p] # "idle"
GoroutineRunning(p) == prod[p] \in {"spawned", "incall", "returned"}

\* C4: at most one operation uses the session at a time: a caller inside an
\* operation holds the lock, a goroutine that has not exited belongs to the
\* caller that holds the lock and is still in its operation, and no two
\* callers are in a transport call together.
C4_MutualExclusion ==
    /\ \A p \in Procs : InOperation(p) => mu = p
    /\ \A p \in Procs : GoroutineRunning(p) => (mu = p /\ pc[p] \in {"range", "walk", "waitdone"})
    /\ \A p, q \in Procs : (prod[p] = "incall" /\ prod[q] = "incall") => p = q

\* A streaming call is under way with a record buffered, and another caller
\* is outside.
C4_Witness ==
    \E p, q \in Procs :
        /\ p # q
        /\ prod[p] = "incall"
        /\ messages[p] > 0
        /\ mu = p
        /\ pc[q] = "idle"

\* C5: when the guard holds no session, the first step of GetFolders, GetInbox,
\* GetFolderMessages and GetEmailByID returns the NotConnected error, no
\* transport call has been issued, and the guard is left as it was.
C5_NotConnectedFirst ==
    [][\A p \in Procs :
          (pc[p] = "body" /\ op[p] \in ReadOps /\ client = Nil /\ pc'[p] # pc[p])
              => /\ pc'[p] = "ret"
                 /\ ret'[p] = Err("NotConnected")
                 /\ calls'[p] = <<>>
                 /\ UNCHANGED guardVars]_vars

\* GetEmailByID has returned NotConnected for an id that does not parse.
C5_Witness ==
    \E p \in Procs :
        /\ op[p] = "GetEmailByID"
        /\ ParseUint(args[p].id) < 0
        /\ ret[p].kind = "NotConnected"
        /\ client = Nil

\* C6: the connections opened and not logged out are at most one, and if
\* there is one the guard holds it.
C6_AtMostOneLiveSession ==
    /\ open <= 1
    /\ open = 1 => client = Session

\* C7: when Disconnect returns, with an error or without, the guard holds no
\* session.
C7_DisconnectAlwaysClears ==
    \A p \in Procs : (op[p] = "Disconnect" /\ pc[p] = "ret") => client = Nil

\* C8: a Connect whose login fails issues the logout of the connection it
\* opened, as its last transport call, and leaves c.client as it was.
C8_LoginFailureTearsDown ==
    [][\A p \in Procs :
          (pc[p] = "body" /\ pc'[p] = "ret" /\ ret'[p].kind = "LoginFailed")
              => /\ calls'[p] # <<>>
                 /\ calls'[p][Len(calls'[p])] = Call("logout", Raw, "", 0, 0)
                 /\ Len(calls'[p]) >= 2
                 /\ calls'[p][Len(calls'[p]) - 1] = Call("login", Raw, "", 0, 0)
                 /\ client' = client]_vars

\* A Connect on a guard without a session has failed at the login.
C8_Witness ==
    \E p \in Procs : ret[p].kind = "LoginFailed" /\ client = Nil

\* C9: Disconnect on a guard that holds no session returns ok, issues no
\* logout, and leaves the guard without a session.
C9_DisconnectIdempotent ==
    [][\A p \in Procs :
          (pc[p] = "body" /\ op[p] = "Disconnect" /\ client = Nil /\ pc'[p] # pc[p])
              => /\ ret'[p].kind = "ok"
                 /\ calls'[p] = <<>>
                 /\ client' = Nil
                 /\ open' = open]_vars

\* A Disconnect that issued nothing has returned ok.
C9_Witness ==
    \E p \in Procs :
        /\ op[p] = "Disconnect"
        /\ pc[p] = "ret"
        /\ ret[p].kind = "ok"
        /\ calls[p] = <<>>

\* C10: when the Fetch call of GetInbox, GetFolderMessages or GetEmailByID
\* reports an error, the operation returns the error and no message, however
\* many records it read before.
C10_FailWhole ==
    [][\A p \in Procs :
          (pc[p] = "waitdone" /\ pc'[p] = "ret" /\ op[p] # "GetFolders"
           /\ done[p] # <<>> /\ Head(done[p]))
              => ret'[p] = Err("FetchFailed")]_vars

\* A page operation has returned the fetch error after reading records.
C10_Witness ==
    \E p \in Procs :
        /\ op[p] \in PageOps
        /\ ret[p].kind = "FetchFailed"
        /\ Len(result[p]) >= 2

\* ------------------------------------------------------------- the page result

\* C11: the Messages of a successful page result of GetInbox and
\* GetFolderMessages are in strictly decreasing order of their sequence
\* numbers, whatever the order the transport delivered the records in.
C11_NewestFirst ==
    \A p \in Procs :
        (op[p] \in PageOps /\ pc[p] = "ret" /\ ret[p].kind = "ok")
            => \A i \in 1..(Len(ret[p].msgs) - 1) :
                    ParseUint(ret[p].msgs[i].ID) > ParseUint(ret[p].msgs[i + 1].ID)

\* --------------------------------------------------------------- GetEmailByID

\* C12: on a guard that holds a session, GetEmailByID with an id that
\* ParseUint rejects returns InvalidID having issued no transport call, and
\* the guard is left as it was.
C12_InvalidID ==
    [][\A p \in Procs :
          (pc[p] = "parse" /\ ParseUint(args[p].id) < 0 /\ pc'[p] # pc[p])
              => /\ pc'[p] = "ret"
                 /\ ret'[p] = Err("InvalidID")
                 /\ calls'[p] = <<>>
                 /\ UNCHANGED guardVars]_vars

\* GetEmailByID has returned InvalidID on a guard that holds a session.
C12_Witness ==
    \E p \in Procs :
        /\ op[p] = "GetEmailByID"
        /\ pc[p] = "ret"
        /\ ret[p].kind = "InvalidID"
        /\ client = Session
        /\ args[p].id = <<"x">>

\* The Fetch of GetEmailByID has delivered no record, the loop over the
\* channel has ended, and the operation takes the call's result from done.
NoRecordStep(p) ==
    /\ op[p] = "GetEmailByID"
    /\ pc[p] = "waitdone"
    /\ pc'[p] = "ret"
    /\ sent[p] = 0

\* C13, as amended: when the Fetch of GetEmailByID delivers no record and
\* returns without error the operation returns NotFound; when it delivers no
\* record and returns an error the operation returns that error; in neither
\* case a Message.
C13_NotFoundUnlessFetchFailed ==
    [][\A p \in Procs :
          NoRecordStep(p)
              => /\ ret'[p].msgs = <<>>
                 /\ ret'[p] = IF Head(done[p]) THEN Err("FetchFailed") ELSE Err("NotFound")]_vars

\* GetEmailByID has returned NotFound after a Fetch that delivered nothing.
C13_Witness ==
    \E p \in Procs :
        /\ op[p] = "GetEmailByID"
        /\ pc[p] = "ret"
        /\ sent[p] = 0
        /\ ret[p].kind = "NotFound"
        /\ Len(calls[p]) = 2

\* C13, as stated: whenever the Fetch of GetEmailByID delivers no record the
\* operation returns NotFound.
C13_AlwaysNotFound ==
    [][\A p \in Procs : NoRecordStep(p) => ret'[p] = Err("NotFound")]_vars

\* -------------------------------------------------------------- the MIME walk

\* The content of the last inline part of a sequence of parts, "" if none.
LastInline(parts) ==
    LET at == {i \in 1..Len(parts) : parts[i].kind = "inline"}
    IN  IF at = {} THEN ""
        ELSE parts[CHOOSE i \in at : \A j \in at : j <= i].content

IsAttachment(part) == part.kind = "attachment"

\* The contents of the attachment parts of a sequence of parts, in its order.
AttachmentsOf(parts) ==
    LET sel == SelectSeq(parts, IsAttachment)
    IN  [i \in 1..Len(sel) |-> sel[i].content]

\* The message GetEmailByID is building from the record it last received.
Building(p) == op[p] = "GetEmailByID" /\ message[p] # <<>>

\* GetEmailByID has returned a Message.
ReturnedMessage(p) == op[p] = "GetEmailByID" /\ pc[p] = "ret" /\ ret[p].kind = "ok"

\* C14: the Body of the message under construction, and of the Message
\* GetEmailByID returns, is the content of the last inline part the walk over
\* the record met, and is empty when it met none.
C14_BodyIsLastInline ==
    \A p \in Procs :
        /\ Building(p) => message[p][1].Body = LastInline(walk[p].seen)
        /\ ReturnedMessage(p) => ret[p].msgs[1].Body = LastInline(walk[p].seen)

\* A Message has been returned for a record with two inline parts.
C14_Witness ==
    \E p \in Procs :
        /\ ReturnedMessage(p)
        /\ walk[p].seen = <<Inline("t1"), Inline("t2")>>
        /\ ret[p].msgs[1].Body = "t2"

\* C15: the Attachments of the message under construction, and of the Message
\* GetEmailByID returns, hold one entry for each attachment part the walk met,
\* in the order it met them, and none for an inline part.
C15_AttachmentsInOrder ==
    \A p \in Procs :
        /\ Building(p) => message[p][1].Attachments = AttachmentsOf(walk[p].seen)
        /\ ReturnedMessage(p) => ret[p].msgs[1].Attachments = AttachmentsOf(walk[p].seen)

\* A Message has been returned for a record with two attachment parts.
C15_Witness ==
    \E p \in Procs :
        /\ ReturnedMessage(p)
        /\ walk[p].seen = <<Attachment("f2"), Attachment("f1")>>
        /\ ret[p].msgs[1].Attachments = <<"f2", "f1">>

\* C16: under FairSpec, a MIME walk that has begun on a record comes to its
\* end, whatever the part iterator answers, and GetEmailByID returns and
\* releases the lock.
C16_WalkFinishes ==
    \A p \in Procs : (pc[p] = "walk") ~> (pc[p] = "idle" /\ mu # p)

\* ------------------------------------------------------- producer and consumer

\* C17: under FairSpec, once the goroutine of a reading operation is started,
\* every record put on the channel is taken from it, the goroutine gets rid
\* of its result on done and exits, and the operation returns and releases
\* the lock.
C17_NoDeadlock ==
    \A p \in Procs :
        /\ (messages[p] > 0) ~> (messages[p] = 0)
        /\ (prod[p] = "spawned") ~> (prod[p] = "exit")
        /\ (prod[p] = "spawned") ~> (prod[p] = "none" /\ mu # p)

\* ------------------------------------------------- pagination, machine integers

\* C18: the conversions to uint32 do not change what a page operation does
\* after its Select: when (page-1)*pageSize >= totalCount over the integers it
\* returns the empty page, and when it goes on to fetch, its range satisfies
\* 1 <= to <= from <= totalCount.
C18_ConversionHarmless ==
    \A p \in Procs :
        Selected(p)
            => /\ (SpecOffset(p) >= totalCount[p])
                    => (pc[p] = "ret" /\ ret[p].kind = "ok" /\ ret[p].msgs = <<>>)
               /\ (pc[p] = "go")
                    => (1 <= seqSet[p][1] /\ seqSet[p][1] <= seqSet[p][2]
                        /\ seqSet[p][2] <= totalCount[p])

\* Every page number an int can hold.
AllPages == 1..MaxInt

\* The sequence numbers the code requests for a page: none for an empty page.
PageRange(total, page, pageSize) ==
    IF PageIsEmpty(total, page, pageSize)
    THEN {}
    ELSE PageTo(total, page, pageSize)..PageFrom(total, page, pageSize)

\* C19: for the totalCount and pageSize of a page operation, the ranges of the
\* pages 1, 2, 3, ... are pairwise disjoint, each non-empty page ends one
\* below the start of the page before it, and together they are 1..totalCount.
C19_PagesPartition ==
    \A p \in Procs :
        (Selected(p) /\ totalCount[p] >= 1)
            => LET total == totalCount[p]
                   size == args[p].pageSize
                   R(q) == PageRange(total, q, size)
               IN  /\ \A q1, q2 \in AllPages : q1 # q2 => R(q1) \cap R(q2) = {}
                   /\ \A q \in AllPages :
                         (q + 1 \in AllPages /\ R(q + 1) # {})
                            => PageFrom(total, q + 1, size) = PageTo(total, q, size) - 1
                   /\ UNION {R(q) : q \in AllPages} = 1..total

\* ------------------------------------------ GetInbox and GetFolderMessages

\* The folder GetFolderMessages is called with, and "INBOX" for GetInbox.
Folder(p) == IF op[p] = "GetInbox" THEN "INBOX" ELSE args[p].folder

\* What the step from Select to the start of the goroutine does, given the
\* folder, the page and the page size.
SelectLaw(p, folder, page, pageSize) ==
    /\ calls'[p] = <<Call("select", Held, folder, 0, 0)>>
    /\ \/ pc'[p] = "ret" /\ ret'[p] = Err("SelectFailed")
       \/ /\ PageIsEmpty(totalCount'[p], page, pageSize)
          /\ pc'[p] = "ret"
          /\ ret'[p] = [kind |-> "ok", msgs |-> <<>>, total |-> totalCount'[p]]
       \/ /\ ~PageIsEmpty(totalCount'[p], page, pageSize)
          /\ pc'[p] = "go"
          /\ ret'[p] = NoRet
          /\ seqSet'[p] = <<PageTo(totalCount'[p], page, pageSize),
                            PageFrom(totalCount'[p], page, pageSize)>>

\* What the later steps do: the one Fetch of the range on the held session, a
\* Message appended for each record, and the result.
StreamLaw(p) ==
    /\ calls'[p] # calls[p]
          => calls'[p] = Append(calls[p], Call("fetch", Held, "", seqSet[p][1], seqSet[p][2]))
    /\ result'[p] # result[p]
          => \E n \in 1..MaxUint32 : result'[p] = Append(result[p], [ID |-> FormatUint(n)])
    /\ (pc[p] = "waitdone" /\ pc'[p] = "ret")
          => ret'[p] = IF Head(done[p])
                       THEN Err("FetchFailed")
                       ELSE [kind |-> "ok", msgs |-> result[p], total |-> totalCount[p]]

=============================================================================
